---- MODULE Spec2Model ----
(***************************************************************************)
(* Broadcast console scheduler of ai_livestream (App component).           *)
(*                                                                         *)
(* The state is the React state and refs of the App component: the queue   *)
(* of AudioItems, the settings, the polling refs and the position of the   *)
(* two asynchronous requests (the n8n poll loop and the chat request).     *)
(* Every handler is one action; a state updater passed to setQueue is      *)
(* part of the action of the handler that queued it.  A handler reads      *)
(* `settings` from the render it was created in: for a synchronous         *)
(* handler that is the current value, for the continuation of an awaited   *)
(* request it is the value captured when the request was issued.           *)
(***************************************************************************)
EXTENDS Integers, Sequences, FiniteSets, TLC

\* ------------------------------------------------------------------ bounds
MaxQueue == 3      \* longest queue explored (insertions are disabled beyond)
MaxBatch == 2      \* longest events array of one poll response
MaxChatBatch == 2  \* longest events array of one chat response
NumEvents == 2     \* number of distinct remote event ids
MaxClock == 1      \* number of Date.now() readings that produce ids
MaxPollCount == 2  \* largest value of pollCountRef explored
MaxTicks == 6      \* largest value of pollCountRef in the session of SpecCadence

VARIABLES
    isStarted,      \* useState isStarted
    settings,       \* useState settings (matchId, autoPlay, n8nUrl)
    queue,          \* useState queue : sequence of AudioItem
    lastEventRef,   \* useRef lastEventRef.current
    lastStatsRef,   \* useRef lastStatsRef.current
    pollCountRef,   \* useRef pollCountRef.current
    n8nConnection,  \* status.n8nConnection
    pollPc,         \* position of the poll loop
    pollSettings,   \* currentSettings captured by the tick in flight
    chatPc,         \* position of handleChatSubmit (isSendingChat)
    chatSettings,   \* settings captured by the chat request in flight
    now,            \* number of Date.now() readings used for ids so far
    entered,        \* history: how often the poll made an item of each remote id
    removedInFlight, \* history: ids removed by the operator during the tick in flight
    onendedAutoPlay, \* settings.autoPlay of the render whose handler audio.onended holds
    acceptedOrder,  \* history: the ids the poll accepted, latest acceptance last
    skipApi,        \* the skipApi field of the body of the last request pollN8N sent
    audio           \* audioRef.current: the item whose url is src, paused, onended bound

vars == <<isStarted, settings, queue, lastEventRef, lastStatsRef, pollCountRef,
          n8nConnection, pollPc, pollSettings, chatPc, chatSettings, now,
          entered, removedInFlight, onendedAutoPlay, acceptedOrder, skipApi, audio>>

\* ------------------------------------------------------------- data model
PLAYING == "PLAYING"
QUEUED == "QUEUED"
COMPLETED == "COMPLETED"
AudioStatus == {PLAYING, QUEUED, COMPLETED}

AI == "AI"
MANUAL == "MANUAL"
AudioSource == {AI, MANUAL}

\* ids are strings in the program; here a pair <<prefix, number>>
EmptyId == <<"", 0>>                  \* the empty string ''
EventId(n) == <<"ev", n>>             \* an id chosen by the remote source
ManualId(t) == <<"manual_", t>>       \* `manual_${Date.now()}`
ChatId(t) == <<"chat_", t>>           \* `chat_${Date.now()}`
Undefined == <<"undefined", 0>>       \* a missing event.id

MatchIds == {"X", "Y"}
NoMatch == ""
NoStats == "null"

NoSettings == [matchId |-> NoMatch, autoPlay |-> FALSE, n8nUrl |-> FALSE]

\* description of the event with remote id n: a sequence of words
DescriptionOf(n) ==
    CASE n % 4 = 1 -> <<"Goal", "TeamA">>
      [] n % 4 = 2 -> <<"Corner", "TeamB">>
      [] n % 4 = 3 -> <<"Red", "Card">>
      [] OTHER     -> <<"Substitution">>

Events == { [id |-> EventId(n), description |-> DescriptionOf(n)] : n \in 1..NumEvents }

\* chat responses may also carry events without an id
ChatEvents == Events \cup { [id |-> Undefined, description |-> <<"Chat", "Response">>] }

RECURSIVE SeqsUpTo(_, _)
SeqsUpTo(S, n) ==
    IF n = 0 THEN { <<>> }
    ELSE LET shorter == SeqsUpTo(S, n - 1)
         IN  shorter \cup { Append(s, x) : s \in { t \in shorter : Len(t) = n - 1 }, x \in S }

Batches == SeqsUpTo(Events, MaxBatch)
ChatBatches == SeqsUpTo(ChatEvents, MaxChatBatch)

\* ---------------------------------------------------------- array helpers
Range(s) == { s[i] : i \in DOMAIN s }
IdsOf(q) == { q[i].id : i \in DOMAIN q }

\* Array.prototype.findIndex, 1-based; 0 when nothing matches (-1 in JS)
FindIndexStatus(q, st) ==
    IF \E i \in DOMAIN q : q[i].status = st
    THEN CHOOSE i \in DOMAIN q : q[i].status = st /\ \A j \in 1..(i - 1) : q[j].status # st
    ELSE 0

FindIndexId(q, id) ==
    IF \E i \in DOMAIN q : q[i].id = id
    THEN CHOOSE i \in DOMAIN q : q[i].id = id /\ \A j \in 1..(i - 1) : q[j].id # id
    ELSE 0

IsPlaying(item) == item.status = PLAYING
NotPlaying(item) == item.status # PLAYING

\* Array.prototype.splice(i, 1) on a copy
RemoveAt(q, i) == SubSeq(q, 1, i - 1) \o SubSeq(q, i + 1, Len(q))

\* Array.prototype.splice(i, 0, ...items) on a copy (insert before index i)
InsertAt(q, i, items) == SubSeq(q, 1, i - 1) \o items \o SubSeq(q, i, Len(q))

SetStatus(q, i, st) == [q EXCEPT ![i].status = st]

\* String.prototype.includes on word sequences: k occurs contiguously in d
Includes(d, k) ==
    \E i \in 0..(Len(d) - Len(k)) : \A j \in 1..Len(k) : d[i + j] = k[j]

importantKeywords ==
    { <<"Goal">>, <<"Penalty">>, <<"Red", "Card">>, <<"Yellow", "Card">>, <<"VAR">> }

IsPriority(item) == \E k \in importantKeywords : Includes(item.description, k)
IsNormal(item) == ~IsPriority(item)


RemoteIds == { EventId(n) : n \in 1..NumEvents }

\* ------------------------------------------------------- state updaters
\* mutant: completion promotes the item at the tail
ItemFinishedUpdaterPromotesLast(prev, autoPlay) ==
    LET currentPlayingIndex == FindIndexStatus(prev, PLAYING)
        newQueue == RemoveAt(prev, currentPlayingIndex)
    IN  IF currentPlayingIndex = 0 THEN prev
        ELSE IF Len(newQueue) > 0 /\ autoPlay THEN SetStatus(newQueue, Len(newQueue), PLAYING)
        ELSE newQueue

\* setQueue updater of handleItemFinished; autoPlay is settings.autoPlay of
\* the render the handler belongs to
ItemFinishedUpdater(prev, autoPlay) ==
    LET currentPlayingIndex == FindIndexStatus(prev, PLAYING)
        newQueue == RemoveAt(prev, currentPlayingIndex)
    IN  IF currentPlayingIndex = 0 THEN prev
        ELSE IF Len(newQueue) > 0 /\ autoPlay THEN SetStatus(newQueue, 1, PLAYING)
        ELSE newQueue

\* mutant: stop prunes the playing item, as completion does
StopUpdaterPrunes(prev) == SelectSeq(prev, NotPlaying)

\* mutant: stop promotes the next waiting item
StopUpdaterPromotes(prev) ==
    LET stopped == [i \in DOMAIN prev |->
                      IF prev[i].status = PLAYING
                      THEN [prev[i] EXCEPT !.status = COMPLETED] ELSE prev[i]]
        nextToPlay == FindIndexStatus(stopped, QUEUED)
    IN  IF nextToPlay # 0 THEN SetStatus(stopped, nextToPlay, PLAYING) ELSE stopped

\* setQueue updater of handleStop
StopUpdater(prev) ==
    [i \in DOMAIN prev |->
        IF prev[i].status = PLAYING THEN [prev[i] EXCEPT !.status = COMPLETED] ELSE prev[i]]

\* mutant: clear filters out the QUEUED items only
ClearUpdaterKeepsCompleted(prev) == SelectSeq(prev, LAMBDA item : item.status # QUEUED)

\* setQueue updater of handleClear
ClearUpdater(prev) == SelectSeq(prev, IsPlaying)

\* setQueue updater of handleRemoveItem
RemoveItemUpdater(prev, id, autoPlay) ==
    LET newQueue == SelectSeq(prev, LAMBDA i : i.id # id)
        playing == FindIndexStatus(newQueue, PLAYING)
    IN  IF playing = 0 /\ autoPlay /\ Len(newQueue) > 0
        THEN SetStatus(newQueue, 1, PLAYING)
        ELSE newQueue

\* mutant: the item that was playing is not demoted
ManualPlayUpdaterKeepsPlaying(prev, id) ==
    LET found == FindIndexId(prev, id)
        others == SelectSeq(prev, LAMBDA i : i.id # id)
    IN  IF found = 0 THEN prev
        ELSE <<[prev[found] EXCEPT !.status = PLAYING]>> \o others

\* setQueue updater of handleManualPlay
ManualPlayUpdater(prev, id) ==
    LET found == FindIndexId(prev, id)
        Demote(i) == [i EXCEPT !.status = IF i.status = PLAYING THEN QUEUED ELSE i.status]
        others == SelectSeq(prev, LAMBDA i : i.id # id)
        otherItems == [k \in DOMAIN others |-> Demote(others[k])]
    IN  IF found = 0 THEN prev
        ELSE <<[prev[found] EXCEPT !.status = PLAYING]>> \o otherItems

\* mutant: the stopped item is taken out of the queue
ManualStopItemUpdaterPrunes(prev, id) ==
    LET found == FindIndexId(prev, id)
    IN  IF found # 0 /\ prev[found].status = PLAYING
        THEN SelectSeq(prev, LAMBDA i : i.id # id)
        ELSE prev

\* setQueue updater of handleManualStopItem
ManualStopItemUpdater(prev, id) ==
    LET found == FindIndexId(prev, id)
    IN  IF found # 0 /\ prev[found].status = PLAYING
        THEN [k \in DOMAIN prev |->
                IF prev[k].id = id THEN [prev[k] EXCEPT !.status = COMPLETED] ELSE prev[k]]
        ELSE prev

\* handleDrop of AudioQueue: move the dragged item to the drop index
DropReorder(q, draggedIndex, dropIndex) ==
    InsertAt(RemoveAt(q, draggedIndex), dropIndex, <<q[draggedIndex]>>)

\* mutant: the injected items start at once, whatever is playing
InjectUpdaterInterrupts(prev, newItems) ==
    SetStatus(newItems, 1, PLAYING) \o prev

\* mutant: the injected items wait at the tail
InjectUpdaterAppends(prev, newItems) ==
    IF FindIndexStatus(prev, PLAYING) # 0 THEN prev \o newItems
    ELSE SetStatus(newItems \o prev, 1, PLAYING)

\* setQueue updater shared by handleManualUpload and handleChatSubmit:
\* new items go to the top of the waiting list
InjectUpdater(prev, newItems) ==
    LET playing == FindIndexStatus(prev, PLAYING)
        waiting == SelectSeq(prev, NotPlaying)
    IN  IF playing # 0 THEN <<prev[playing]>> \o newItems \o waiting
        ELSE SetStatus(newItems \o waiting, 1, PLAYING)

\* the item pollN8N builds from an event
PollItem(event) ==
    [id |-> event.id, source |-> AI, status |-> QUEUED, description |-> event.description]

\* mutant: the duplicate check does not move lastEventRef
RECURSIVE DeduplicateKeepsCursor(_, _, _, _)
DeduplicateKeepsCursor(events, existingIds, last, acc) ==
    IF events = <<>> THEN [newItems |-> acc, last |-> last]
    ELSE LET event == Head(events)
         IN  IF event.id \in existingIds \/ event.id = last
             THEN DeduplicateKeepsCursor(Tail(events), existingIds, last, acc)
             ELSE DeduplicateKeepsCursor(Tail(events), existingIds, last, Append(acc, PollItem(event)))

\* data.events.forEach of pollN8N: the strict duplicate check, which also
\* advances lastEventRef for every accepted event
RECURSIVE Deduplicate(_, _, _, _)
Deduplicate(events, existingIds, last, acc) ==
    IF events = <<>> THEN [newItems |-> acc, last |-> last]
    ELSE LET event == Head(events)
         IN  IF event.id \in existingIds \/ event.id = last
             THEN Deduplicate(Tail(events), existingIds, last, acc)
             ELSE Deduplicate(Tail(events), existingIds, event.id, Append(acc, PollItem(event)))

\* mutant: priority items are spliced in at playingIndex, ahead of the
\* playing item
PriorityMergeBeforePlaying(prev, newItems, autoPlay) ==
    LET priorityItems == SelectSeq(newItems, IsPriority)
        normalItems == SelectSeq(newItems, IsNormal)
        playingIndex == FindIndexStatus(prev, PLAYING)
        placed ==
            IF Len(priorityItems) > 0
            THEN (IF playingIndex # 0
                  THEN InsertAt(prev, playingIndex, priorityItems)
                  ELSE SetStatus(priorityItems, 1, PLAYING) \o prev) \o normalItems
            ELSE prev \o newItems
        nextToPlay == FindIndexStatus(placed, QUEUED)
    IN  IF Len(newItems) = 0 THEN prev
        ELSE IF FindIndexStatus(placed, PLAYING) = 0 /\ autoPlay /\ nextToPlay # 0
        THEN SetStatus(placed, nextToPlay, PLAYING)
        ELSE placed

\* mutant: without a playing item the priority items go to the head, but
\* only auto-play starts one
PriorityMergeWaitsForAutoPlay(prev, newItems, autoPlay) ==
    LET priorityItems == SelectSeq(newItems, IsPriority)
        normalItems == SelectSeq(newItems, IsNormal)
        playingIndex == FindIndexStatus(prev, PLAYING)
        placed ==
            IF Len(priorityItems) > 0
            THEN (IF playingIndex # 0
                  THEN InsertAt(prev, playingIndex + 1, priorityItems)
                  ELSE priorityItems \o prev) \o normalItems
            ELSE prev \o newItems
        nextToPlay == FindIndexStatus(placed, QUEUED)
    IN  IF Len(newItems) = 0 THEN prev
        ELSE IF FindIndexStatus(placed, PLAYING) = 0 /\ autoPlay /\ nextToPlay # 0
        THEN SetStatus(placed, nextToPlay, PLAYING)
        ELSE placed

\* priority logic of the setQueue updater of pollN8N
PriorityMerge(prev, newItems, autoPlay) ==
    LET priorityItems == SelectSeq(newItems, IsPriority)
        normalItems == SelectSeq(newItems, IsNormal)
        playingIndex == FindIndexStatus(prev, PLAYING)
        placed ==
            IF Len(priorityItems) > 0
            THEN (IF playingIndex # 0
                  THEN InsertAt(prev, playingIndex + 1, priorityItems)
                  ELSE SetStatus(priorityItems, 1, PLAYING) \o prev) \o normalItems
            ELSE prev \o newItems
        nextToPlay == FindIndexStatus(placed, QUEUED)
    IN  IF Len(newItems) = 0 THEN prev
        ELSE IF FindIndexStatus(placed, PLAYING) = 0 /\ autoPlay /\ nextToPlay # 0
        THEN SetStatus(placed, nextToPlay, PLAYING)
        ELSE placed

\* the settings effect: a new settings object reconnects the status light
SettingsEffect(conn, newSettings, started) ==
    IF newSettings.n8nUrl /\ started THEN TRUE ELSE conn

NoneEntered == [id \in RemoteIds |-> 0]

\* the Audio element handleStart creates: no src, paused, no onended handler
NoAudio == [src |-> EmptyId, paused |-> TRUE, onended |-> FALSE]


\* --------------------------------------------------------------- actions
\* handleStart; the polling effect then runs pollN8N for the first time
handleStart ==
    /\ ~isStarted
    /\ isStarted' = TRUE
    /\ n8nConnection' = settings.n8nUrl
    /\ pollPc' = "scheduled"
    /\ UNCHANGED <<settings, queue, lastEventRef, lastStatsRef, pollCountRef,
                   pollSettings, chatPc, chatSettings, now, entered, removedInFlight, onendedAutoPlay, acceptedOrder, skipApi, audio>>

\* mutant: a change of match id clears the queue but keeps the cursor and
\* the snapshot
SaveSettingsEffectKeepsCursor(newSettings) ==
    /\ IF newSettings.matchId # settings.matchId
       THEN /\ queue' = <<>>
            /\ UNCHANGED <<lastEventRef, lastStatsRef>>
       ELSE UNCHANGED <<lastEventRef, lastStatsRef, queue>>
    /\ settings' = newSettings
    /\ n8nConnection' = SettingsEffect(newSettings.n8nUrl, newSettings, isStarted)

\* saveSettings(newSettings), also the tail of handleSelectMatch
SaveSettingsEffect(newSettings) ==
    /\ IF newSettings.matchId # settings.matchId
       THEN /\ lastEventRef' = EmptyId
            /\ lastStatsRef' = NoStats
            /\ queue' = <<>>
       ELSE UNCHANGED <<lastEventRef, lastStatsRef, queue>>
    /\ settings' = newSettings
    /\ n8nConnection' = SettingsEffect(newSettings.n8nUrl, newSettings, isStarted)

saveSettings(newSettings) ==
    /\ isStarted
    /\ SaveSettingsEffect(newSettings)
    /\ UNCHANGED <<isStarted, pollCountRef, pollPc, pollSettings, chatPc, chatSettings, now, entered, removedInFlight, onendedAutoPlay, acceptedOrder, skipApi, audio>>

\* mutant: the polling effect also depends on the selected match, so that a
\* selection starts a second loop beside a request still in flight
handleSelectMatchRestartsLoop(m) ==
    /\ isStarted
    /\ SaveSettingsEffect([settings EXCEPT !.matchId = m])
    /\ pollCountRef' = 0
    /\ pollPc' = "scheduled"
    /\ UNCHANGED <<isStarted, pollSettings, chatPc, chatSettings, now,
                   entered, removedInFlight, onendedAutoPlay, acceptedOrder, skipApi, audio>>

handleSelectMatch(m) ==
    /\ isStarted
    /\ SaveSettingsEffect([settings EXCEPT !.matchId = m])
    /\ pollCountRef' = 0
    /\ UNCHANGED <<isStarted, pollPc, pollSettings, chatPc, chatSettings, now, entered, removedInFlight, onendedAutoPlay, acceptedOrder, skipApi, audio>>

handleResetMatch ==
    /\ isStarted
    /\ settings.matchId # NoMatch
    /\ settings' = [settings EXCEPT !.matchId = NoMatch]
    /\ queue' = <<>>
    /\ lastEventRef' = EmptyId
    /\ lastStatsRef' = NoStats
    /\ n8nConnection' = SettingsEffect(n8nConnection, settings', isStarted)
    /\ UNCHANGED <<isStarted, pollCountRef, pollPc, pollSettings, chatPc, chatSettings, now, entered, removedInFlight, onendedAutoPlay, acceptedOrder, skipApi, audio>>

\* completion: the audio element's onended or the popup's close button
handleItemFinishedStep ==
    /\ isStarted
    /\ queue' = ItemFinishedUpdater(queue, settings.autoPlay)
    /\ UNCHANGED <<isStarted, settings, lastEventRef, lastStatsRef, pollCountRef,
                   n8nConnection, pollPc, pollSettings, chatPc, chatSettings, now, entered, removedInFlight, onendedAutoPlay, acceptedOrder, skipApi>>

handleItemFinished ==
    handleItemFinishedStep /\ UNCHANGED audio

\* handleSkip calls the handleItemFinished of its own render, whose updater
\* reads the settings.autoPlay of that render
handleSkip ==
    /\ isStarted
    /\ IF ~settings.autoPlay
       THEN /\ settings' = [settings EXCEPT !.autoPlay = TRUE]
            /\ n8nConnection' = SettingsEffect(n8nConnection, settings', isStarted)
       ELSE UNCHANGED <<settings, n8nConnection>>
    /\ queue' = ItemFinishedUpdater(queue, settings.autoPlay)
    /\ UNCHANGED <<isStarted, lastEventRef, lastStatsRef, pollCountRef,
                   pollPc, pollSettings, chatPc, chatSettings, now, entered, removedInFlight, onendedAutoPlay, acceptedOrder, skipApi, audio>>

handleStop ==
    /\ isStarted
    /\ queue' = StopUpdater(queue)
    /\ settings' = [settings EXCEPT !.autoPlay = FALSE]
    /\ n8nConnection' = SettingsEffect(n8nConnection, settings', isStarted)
    /\ UNCHANGED <<isStarted, lastEventRef, lastStatsRef, pollCountRef,
                   pollPc, pollSettings, chatPc, chatSettings, now, entered, removedInFlight, onendedAutoPlay, acceptedOrder, skipApi, audio>>

handleClear ==
    /\ isStarted
    /\ queue' = ClearUpdater(queue)
    /\ UNCHANGED <<isStarted, settings, lastEventRef, lastStatsRef, pollCountRef,
                   n8nConnection, pollPc, pollSettings, chatPc, chatSettings, now, entered, removedInFlight, onendedAutoPlay, acceptedOrder, skipApi, audio>>

\* ids a command may name: those on screen and one that is not
CommandIds == IdsOf(queue) \cup RemoteIds

handleRemoveItemStep(id) ==
    /\ isStarted
    /\ queue' = RemoveItemUpdater(queue, id, settings.autoPlay)
    /\ UNCHANGED <<isStarted, settings, lastEventRef, lastStatsRef, pollCountRef,
                   n8nConnection, pollPc, pollSettings, chatPc, chatSettings, now,
                   entered, onendedAutoPlay, acceptedOrder, skipApi, audio>>

handleRemoveItem(id) ==
    handleRemoveItemStep(id) /\ UNCHANGED removedInFlight

\* the same handler, with the history of what it took out of the queue while
\* a tick was in flight
handleRemoveItemRaced(id) ==
    /\ handleRemoveItemStep(id)
    /\ removedInFlight' = IF pollPc = "inflight" /\ id \in IdsOf(queue)
                          THEN removedInFlight \cup {id}
                          ELSE removedInFlight

handleManualPlayStep(id) ==
    /\ isStarted
    /\ queue' = ManualPlayUpdater(queue, id)
    /\ IF FindIndexId(queue, id) # 0 /\ ~settings.autoPlay
       THEN /\ settings' = [settings EXCEPT !.autoPlay = TRUE]
            /\ n8nConnection' = SettingsEffect(n8nConnection, settings', isStarted)
       ELSE UNCHANGED <<settings, n8nConnection>>
    /\ UNCHANGED <<isStarted, lastEventRef, lastStatsRef, pollCountRef,
                   pollPc, pollSettings, chatPc, chatSettings, now, entered, removedInFlight, onendedAutoPlay, acceptedOrder, skipApi>>

handleManualPlay(id) ==
    handleManualPlayStep(id) /\ UNCHANGED audio

handleManualStopItem(id) ==
    /\ isStarted
    /\ queue' = ManualStopItemUpdater(queue, id)
    /\ UNCHANGED <<isStarted, settings, lastEventRef, lastStatsRef, pollCountRef,
                   n8nConnection, pollPc, pollSettings, chatPc, chatSettings, now, entered, removedInFlight, onendedAutoPlay, acceptedOrder, skipApi, audio>>

\* handleReorder with the array AudioQueue builds on a drop
handleReorder(draggedIndex, dropIndex) ==
    /\ isStarted
    /\ draggedIndex # dropIndex
    /\ queue' = DropReorder(queue, draggedIndex, dropIndex)
    /\ UNCHANGED <<isStarted, settings, lastEventRef, lastStatsRef, pollCountRef,
                   n8nConnection, pollPc, pollSettings, chatPc, chatSettings, now, entered, removedInFlight, onendedAutoPlay, acceptedOrder, skipApi, audio>>

\* two uploads are separate user gestures: Date.now() differs between them
handleManualUploadStep ==
    /\ isStarted
    /\ now < MaxClock
    /\ Len(queue) < MaxQueue
    /\ now' = now + 1
    /\ LET newItem == [id |-> ManualId(now'), source |-> MANUAL, status |-> QUEUED,
                       description |-> <<"Manual", "Override">>]
       IN  queue' = InjectUpdater(queue, <<newItem>>)
    /\ IF ~settings.autoPlay
       THEN /\ settings' = [settings EXCEPT !.autoPlay = TRUE]
            /\ n8nConnection' = SettingsEffect(n8nConnection, settings', isStarted)
       ELSE UNCHANGED <<settings, n8nConnection>>
    /\ UNCHANGED <<isStarted, lastEventRef, lastStatsRef, pollCountRef,
                   pollPc, pollSettings, chatPc, chatSettings, entered, removedInFlight, onendedAutoPlay, acceptedOrder, skipApi>>

handleManualUpload ==
    handleManualUploadStep /\ UNCHANGED audio

\* history of the remote ids the poll turned into items
Count(q, id) == Cardinality({ i \in DOMAIN q : q[i].id = id })

TrackEntered ==
    entered' = [id \in RemoteIds |->
                  LET k == entered[id] + Count(queue', id) - Count(queue, id)
                  IN  IF k > 2 THEN 2 ELSE k]

\* ------------------------------------------------------------- poll loop
\* mutant: the poll counter also counts the ticks that find no configuration
pollN8NStepCountsIdleTicks(maxCount) ==
    /\ pollPc = "scheduled"
    /\ IF ~settings.n8nUrl \/ settings.matchId = NoMatch
       THEN /\ pollCountRef' = IF pollCountRef < maxCount THEN pollCountRef + 1 ELSE pollCountRef
            /\ UNCHANGED <<pollPc, pollSettings>>
       ELSE /\ pollCountRef < maxCount
            /\ pollCountRef' = pollCountRef + 1
            /\ pollSettings' = settings
            /\ pollPc' = "inflight"
    /\ UNCHANGED <<isStarted, settings, queue, lastEventRef, lastStatsRef,
                   n8nConnection, chatPc, chatSettings, now, entered, removedInFlight, onendedAutoPlay, acceptedOrder, audio>>

\* pollN8N up to the fetch: the configuration guard, the poll counter and
\* the capture of settingsRef.current
pollN8NStep(maxCount) ==
    /\ pollPc = "scheduled"
    /\ IF ~settings.n8nUrl \/ settings.matchId = NoMatch
       THEN UNCHANGED <<pollPc, pollSettings, pollCountRef>>
       ELSE /\ pollCountRef < maxCount
            /\ pollCountRef' = pollCountRef + 1
            /\ pollSettings' = settings
            /\ pollPc' = "inflight"
    /\ UNCHANGED <<isStarted, settings, queue, lastEventRef, lastStatsRef,
                   n8nConnection, chatPc, chatSettings, now, entered, removedInFlight, onendedAutoPlay, acceptedOrder, audio>>

pollN8N ==
    pollN8NStep(MaxPollCount) /\ UNCHANGED skipApi

\* mutant: the external API is called on every fourth poll
shouldCallApiEveryFourth(n) == n % 4 = 0 \/ n = 1

\* mutant: the first poll is not a case of its own
shouldCallApiOnModulus(n) == n % 5 = 0

\* shouldCallApi of pollN8N for pollCountRef.current = n
shouldCallApi(n) == n % 5 = 0 \/ n = 1

\* pollN8N up to the fetch in a session of MaxTicks requests, with the
\* skipApi field of the request body
pollN8NSends ==
    /\ pollN8NStep(MaxTicks)
    /\ skipApi' = IF pollPc' = "inflight" THEN ~shouldCallApi(pollCountRef') ELSE skipApi

\* the continuation of pollN8N after a successful response
pollResponseStep(events, currentStats) ==
    /\ pollPc = "inflight"
    /\ LET d == Deduplicate(events, IdsOf(queue), lastEventRef, <<>>)
       IN  /\ Len(queue) + Len(events) <= MaxQueue
           /\ lastStatsRef' = IF currentStats THEN pollSettings.matchId ELSE lastStatsRef
           /\ lastEventRef' = d.last
           /\ queue' = PriorityMerge(queue, d.newItems, pollSettings.autoPlay)
    /\ n8nConnection' = TRUE
    /\ pollPc' = "scheduled"
    /\ pollSettings' = NoSettings
    /\ UNCHANGED <<isStarted, settings, pollCountRef, chatPc, chatSettings, now>>

pollResponse(events, currentStats) ==
    pollResponseStep(events, currentStats)
    /\ UNCHANGED <<entered, removedInFlight, onendedAutoPlay, acceptedOrder, skipApi, audio>>

\* the same continuation, with the history of created items kept
pollResponseCounted(events, currentStats) ==
    pollResponseStep(events, currentStats) /\ TrackEntered
    /\ UNCHANGED <<removedInFlight, onendedAutoPlay, acceptedOrder, skipApi, audio>>

\* the same continuation; the history of removals ends with the tick
pollResponseRaced(events, currentStats) ==
    /\ pollResponseStep(events, currentStats)
    /\ removedInFlight' = {}
    /\ UNCHANGED <<entered, onendedAutoPlay, acceptedOrder, skipApi, audio>>

\* mutant: the failure branch does not set the timer again
pollErrorStopsLoop ==
    /\ pollPc = "inflight"
    /\ n8nConnection' = FALSE
    /\ pollPc' = "off"
    /\ pollSettings' = NoSettings
    /\ UNCHANGED <<isStarted, settings, queue, lastEventRef, lastStatsRef, pollCountRef,
                   chatPc, chatSettings, now, entered, removedInFlight, onendedAutoPlay, acceptedOrder, skipApi, audio>>

\* mutant: the failure branch forgets the cursor
pollErrorResetsCursor ==
    /\ pollPc = "inflight"
    /\ n8nConnection' = FALSE
    /\ lastEventRef' = EmptyId
    /\ pollPc' = "scheduled"
    /\ pollSettings' = NoSettings
    /\ UNCHANGED <<isStarted, settings, queue, lastStatsRef, pollCountRef,
                   chatPc, chatSettings, now, entered, removedInFlight, onendedAutoPlay, acceptedOrder, skipApi, audio>>

\* the ids of a batch of accepted items, noted in the order: an id accepted
\* again moves to the end
RECURSIVE NoteAccepted(_, _)
NoteAccepted(order, ids) ==
    IF ids = <<>> THEN order
    ELSE NoteAccepted(Append(SelectSeq(order, LAMBDA x : x # Head(ids)), Head(ids)), Tail(ids))

\* the same continuation, with the history of the order of acceptance
pollResponseOrdered(events, currentStats) ==
    /\ pollResponseStep(events, currentStats)
    /\ LET d == Deduplicate(events, IdsOf(queue), lastEventRef, <<>>)
       IN  acceptedOrder' = NoteAccepted(acceptedOrder, [i \in DOMAIN d.newItems |-> d.newItems[i].id])
    /\ UNCHANGED <<entered, removedInFlight, onendedAutoPlay, skipApi, audio>>

\* the catch branch for a network error, a non-success status (the throw
\* after response.ok is false) or a body response.json() cannot parse: all
\* three leave the try block before anything is written
pollError ==
    /\ pollPc = "inflight"
    /\ n8nConnection' = FALSE
    /\ pollPc' = "scheduled"
    /\ pollSettings' = NoSettings
    /\ UNCHANGED <<isStarted, settings, queue, lastEventRef, lastStatsRef, pollCountRef,
                   chatPc, chatSettings, now, entered, removedInFlight, onendedAutoPlay, acceptedOrder, skipApi, audio>>

\* the catch branch for the AbortError of the 8 s timeout
pollAbort ==
    /\ pollPc = "inflight"
    /\ pollPc' = "scheduled"
    /\ pollSettings' = NoSettings
    /\ UNCHANGED <<isStarted, settings, queue, lastEventRef, lastStatsRef, pollCountRef,
                   n8nConnection, chatPc, chatSettings, now, entered, removedInFlight, onendedAutoPlay, acceptedOrder, skipApi, audio>>

\* ------------------------------------------------------------------ chat
\* handleChatSubmit up to the fetch
handleChatSubmit ==
    /\ isStarted
    /\ chatPc = "idle"
    /\ settings.n8nUrl
    /\ chatPc' = "inflight"
    /\ chatSettings' = settings
    /\ UNCHANGED <<isStarted, settings, queue, lastEventRef, lastStatsRef, pollCountRef,
                   n8nConnection, pollPc, pollSettings, now, entered, removedInFlight, onendedAutoPlay, acceptedOrder, skipApi, audio>>

\* the item handleChatSubmit builds from an event at clock reading t
ChatItem(event, t) ==
    [id |-> IF event.id = Undefined THEN ChatId(t) ELSE event.id,
     source |-> AI, status |-> QUEUED, description |-> event.description]

\* the continuation of handleChatSubmit after a successful response
chatResponse(events) ==
    /\ chatPc = "inflight"
    /\ LET readsClock == \E i \in DOMAIN events : events[i].id = Undefined
           t == IF readsClock THEN now + 1 ELSE now
           newItems == [i \in DOMAIN events |-> ChatItem(events[i], t)]
       IN  /\ Len(queue) + Len(events) <= MaxQueue
           /\ t <= MaxClock
           /\ now' = t
           /\ IF Len(newItems) > 0
              THEN /\ queue' = InjectUpdater(queue, newItems)
                   /\ IF ~chatSettings.autoPlay
                      THEN /\ settings' = [chatSettings EXCEPT !.autoPlay = TRUE]
                           /\ n8nConnection' = SettingsEffect(n8nConnection, settings', isStarted)
                      ELSE UNCHANGED <<settings, n8nConnection>>
              ELSE UNCHANGED <<queue, settings, n8nConnection>>
    /\ chatPc' = "idle"
    /\ chatSettings' = NoSettings
    /\ UNCHANGED <<isStarted, lastEventRef, lastStatsRef, pollCountRef,
                   pollPc, pollSettings, entered, removedInFlight, onendedAutoPlay, acceptedOrder, skipApi, audio>>

\* the catch branch of handleChatSubmit
chatError ==
    /\ chatPc = "inflight"
    /\ chatPc' = "idle"
    /\ chatSettings' = NoSettings
    /\ UNCHANGED <<isStarted, settings, queue, lastEventRef, lastStatsRef, pollCountRef,
                   n8nConnection, pollPc, pollSettings, now, entered, removedInFlight, onendedAutoPlay, acceptedOrder, skipApi, audio>>

\* ------------------------------------------- audio engine (src/App.tsx)
\* handleStart of src/App.tsx: it also creates the Audio element and binds
\* onended, once, to the handleAudioEnded of the render it runs in
handleStartBindsOnended ==
    /\ ~isStarted
    /\ isStarted' = TRUE
    /\ n8nConnection' = settings.n8nUrl
    /\ pollPc' = "scheduled"
    /\ onendedAutoPlay' = settings.autoPlay
    /\ UNCHANGED <<settings, queue, lastEventRef, lastStatsRef, pollCountRef,
                   pollSettings, chatPc, chatSettings, now, entered, removedInFlight,
                   acceptedOrder, skipApi, audio>>

\* natural end of playback in src/App.tsx: the audio element calls the
\* handler it was given at start, whose updater reads the settings of that
\* render
handleAudioEnded ==
    /\ isStarted
    /\ queue' = ItemFinishedUpdater(queue, onendedAutoPlay)
    /\ UNCHANGED <<isStarted, settings, lastEventRef, lastStatsRef, pollCountRef,
                   n8nConnection, pollPc, pollSettings, chatPc, chatSettings, now,
                   entered, removedInFlight, onendedAutoPlay, acceptedOrder, skipApi, audio>>

\* ------------------------------------- playback engine (text revision)
\* the playback useEffect, run after a render with queue q on the audio
\* element a: a MANUAL item is played only if its url is not the src
\* already; a text item and an idle queue pause the element
PlaybackEffect(a, q) ==
    LET playingIndex == FindIndexStatus(q, PLAYING)
    IN  IF playingIndex = 0 THEN [a EXCEPT !.paused = TRUE]
        ELSE LET currentItem == q[playingIndex]
             IN  IF currentItem.source = MANUAL
                 THEN [src |-> currentItem.id,
                       paused |-> IF a.src = currentItem.id THEN a.paused ELSE FALSE,
                       onended |-> TRUE]
                 ELSE [a EXCEPT !.paused = TRUE, !.onended = FALSE]

\* audioRef.current.pause()
Pause(a) == [a EXCEPT !.paused = TRUE]

\* the popup is shown for the PLAYING item if it is an AI item
PopupVisible(q) ==
    LET playingIndex == FindIndexStatus(q, PLAYING)
    IN  playingIndex # 0 /\ q[playingIndex].source = AI

\* handleManualUpload and the playback effect of the next render
handleManualUploadPlayback ==
    /\ handleManualUploadStep
    /\ audio' = PlaybackEffect(audio, queue')

\* handleManualPlay, which pauses the element if the item exists, and the
\* playback effect of the next render
handleManualPlayPlayback(id) ==
    /\ handleManualPlayStep(id)
    /\ audio' = PlaybackEffect(IF FindIndexId(queue, id) # 0 THEN Pause(audio) ELSE audio, queue')

\* the Play Now button of AudioQueue, shown for the items that are not
\* PLAYING
onPlay(id) ==
    /\ \E i \in DOMAIN queue : queue[i].id = id /\ queue[i].status # PLAYING
    /\ handleManualPlayPlayback(id)

\* the media of the element plays to its end: the element is paused, the
\* onended handler runs handleItemFinished, the playback effect follows
onended ==
    /\ ~audio.paused /\ audio.onended
    /\ handleItemFinishedStep
    /\ audio' = PlaybackEffect(Pause(audio), queue')

\* the close button of the popup: onClose is handleItemFinished
onClose ==
    /\ PopupVisible(queue)
    /\ handleItemFinishedStep
    /\ audio' = PlaybackEffect(audio, queue')

\* the continuation of pollN8N and the playback effect of the next render
pollResponsePlayback(events, currentStats) ==
    /\ pollResponseStep(events, currentStats)
    /\ audio' = PlaybackEffect(audio, queue')
    /\ UNCHANGED <<entered, removedInFlight, onendedAutoPlay, acceptedOrder, skipApi>>

\* --------------------------------------------------------- specifications
\* the settings forms of one context with a configured endpoint
FormsOf(matches) == [matchId : matches, autoPlay : BOOLEAN, n8nUrl : {TRUE}]

\* Spec: the command surface, the poll merge and the chat merge on the
\* queue of one context, which the operator may leave and select again
Next ==
    \/ handleStart
    \/ \E newSettings \in FormsOf({"X"}) : saveSettings(newSettings)
    \/ handleSelectMatch("X")
    \/ handleResetMatch
    \/ handleItemFinished
    \/ handleSkip
    \/ handleStop
    \/ handleClear
    \/ \E id \in CommandIds : handleRemoveItem(id)
    \/ \E id \in CommandIds : handleManualPlay(id)
    \/ \E id \in CommandIds : handleManualStopItem(id)
    \/ \E draggedIndex \in DOMAIN queue, dropIndex \in DOMAIN queue :
          handleReorder(draggedIndex, dropIndex)
    \/ handleManualUpload
    \/ pollN8N
    \/ \E events \in Batches : pollResponse(events, FALSE)
    \/ handleChatSubmit
    \/ \E events \in ChatBatches : chatResponse(events)

\* the state of the component after its first render, with the settings
\* read from localStorage among forms
InitFrom(forms) ==
    /\ isStarted = FALSE
    /\ settings \in forms
    /\ queue = <<>>
    /\ lastEventRef = EmptyId
    /\ lastStatsRef = NoStats
    /\ pollCountRef = 0
    /\ n8nConnection = FALSE
    /\ pollPc = "off"
    /\ pollSettings = NoSettings
    /\ chatPc = "idle"
    /\ chatSettings = NoSettings
    /\ now = 0
    /\ entered = NoneEntered
    /\ removedInFlight = {}
    /\ onendedAutoPlay = FALSE
    /\ acceptedOrder = <<>>
    /\ skipApi = FALSE
    /\ audio = NoAudio

InitOf(matches) == InitFrom(FormsOf(matches))

Init == InitOf({"X", NoMatch})

Spec == Init /\ [][Next]_vars

\* SpecDedup: one session of one context; polls, completions and the
\* commands that take items out, with the history of created items
NextDedup ==
    \/ handleStart
    \/ handleSelectMatch("X")
    \/ handleItemFinished
    \/ handleStop
    \/ handleClear
    \/ \E id \in CommandIds : handleRemoveItem(id)
    \/ \E id \in CommandIds : handleManualPlay(id)
    \/ pollN8N
    \/ \E events \in Batches : pollResponseCounted(events, FALSE)

SpecDedup == InitOf({"X"}) /\ [][NextDedup]_vars

\* SpecSession: the operator switches between contexts while polls are in
\* flight; responses may carry a statistics snapshot, polls may fail
NextSession ==
    \/ handleStart
    \/ \E m \in MatchIds : handleSelectMatch(m)
    \/ \E newSettings \in FormsOf(MatchIds) : saveSettings(newSettings)
    \/ handleResetMatch
    \/ handleItemFinished
    \/ handleStop
    \/ pollN8N
    \/ \E events \in Batches, currentStats \in BOOLEAN : pollResponse(events, currentStats)
    \/ pollError
    \/ pollAbort

SpecSession == InitOf(MatchIds \cup {NoMatch}) /\ [][NextSession]_vars

\* the three ways a tick in flight ends
PollCompletes ==
    \/ \E events \in Batches, currentStats \in BOOLEAN : pollResponse(events, currentStats)
    \/ pollError
    \/ pollAbort

\* SpecLoop: SpecSession with the scheduling of the loop: a request in
\* flight resolves, rejects or is aborted by the 8 s timer, and a timer that
\* stays set fires
SpecLoop ==
    /\ InitOf(MatchIds \cup {NoMatch})
    /\ [][NextSession]_vars
    /\ WF_vars(PollCompletes)
    /\ WF_vars(pollN8N)

\* SpecRace: one context; the operator removes items while ticks are in
\* flight
NextRace ==
    \/ handleStart
    \/ handleItemFinished
    \/ handleStop
    \/ \E id \in CommandIds : handleRemoveItemRaced(id)
    \/ pollN8N
    \/ \E events \in Batches : pollResponseRaced(events, FALSE)

SpecRace == InitOf({"X"}) /\ [][NextRace]_vars

\* SpecAudio: the audio engine revision of the component (src/App.tsx), whose
\* other handlers are those of the text revision: manual uploads, chat
\* responses, settings changes, commands and the natural end of playback
NextAudio ==
    \/ handleStartBindsOnended
    \/ \E newSettings \in FormsOf({"X"}) : saveSettings(newSettings)
    \/ handleStop
    \/ \E id \in CommandIds : handleManualPlay(id)
    \/ handleManualUpload
    \/ handleChatSubmit
    \/ \E events \in ChatBatches : chatResponse(events)
    \/ handleAudioEnded

SpecAudio == InitOf({"X"}) /\ [][NextAudio]_vars

\* the remote events of SpecFifo: one priority event and two normal ones
FifoEvents == { [id |-> EventId(n), description |-> DescriptionOf(n)] : n \in {1, 2, 4} }
FifoBatches == SeqsUpTo(FifoEvents, MaxBatch)

\* SpecFifo: one context without reorder, explicit play, remove and clear:
\* polls, completions, skip, stop, explicit stop, settings and manual uploads,
\* with the history of the order of acceptance
NextFifo ==
    \/ handleStart
    \/ \E newSettings \in FormsOf({"X"}) : saveSettings(newSettings)
    \/ handleItemFinished
    \/ handleSkip
    \/ handleStop
    \/ \E id \in CommandIds : handleManualStopItem(id)
    \/ handleManualUpload
    \/ pollN8N
    \/ \E events \in FifoBatches : pollResponseOrdered(events, FALSE)

SpecFifo == InitOf({"X"}) /\ [][NextFifo]_vars

\* poll responses whose events may lack the id field
PollEvents == Events \cup { [id |-> Undefined, description |-> DescriptionOf(2)] }
PollBatches == SeqsUpTo(PollEvents, MaxBatch)

\* SpecMalformed: one context; the source may send events without an id;
\* completions and clear make room
NextMalformed ==
    \/ handleStart
    \/ handleItemFinished
    \/ handleClear
    \/ pollN8N
    \/ \E events \in PollBatches : pollResponse(events, FALSE)

SpecMalformed == InitOf({"X"}) /\ [][NextMalformed]_vars

\* the settings forms of SpecConfig: the endpoint and the context may be
\* missing
ConfigForms == [matchId : {"X", NoMatch}, autoPlay : BOOLEAN, n8nUrl : BOOLEAN]

\* SpecConfig: one context; the operator saves settings with and without an
\* endpoint and a context while the loop ticks
NextConfig ==
    \/ handleStart
    \/ \E newSettings \in ConfigForms : saveSettings(newSettings)
    \/ handleResetMatch
    \/ handleItemFinished
    \/ pollN8N
    \/ \E events \in Batches : pollResponse(events, FALSE)
    \/ pollError

SpecConfig == InitFrom(ConfigForms) /\ [][NextConfig]_vars

\* SpecCadence: a session of MaxTicks requests on one context; the operator
\* may select the match again, which sets the poll counter to zero
NextCadence ==
    \/ handleStart
    \/ handleSelectMatch("X")
    \/ handleItemFinished
    \/ pollN8NSends
    \/ \E events \in Batches : pollResponse(events, FALSE)
    \/ pollError

SpecCadence == InitOf({"X"}) /\ [][NextCadence]_vars

\* the ids of the items of SpecPlayback
PlaybackIds == RemoteIds \cup { ManualId(t) : t \in 1..MaxClock }

\* SpecPlayback: one context with auto-play enabled and no stop, skip, clear
\* or remove: polls bring text items, the operator uploads media and plays
\* items explicitly; media that plays reaches its end and a popup that is
\* shown is closed
NextPlayback ==
    \/ handleStart
    \/ handleManualUploadPlayback
    \/ \E id \in CommandIds : onPlay(id)
    \/ onended
    \/ onClose
    \/ pollN8N
    \/ \E events \in Batches : pollResponsePlayback(events, FALSE)

SpecPlayback ==
    /\ InitFrom([matchId : {"X"}, autoPlay : {TRUE}, n8nUrl : {TRUE}])
    /\ [][NextPlayback]_vars
    /\ WF_vars(onended)
    /\ WF_vars(onClose)

\* ----------------------------------------------------------------- claims
NumPlaying(q) == Cardinality({ i \in DOMAIN q : q[i].status = PLAYING })
HasStatus(q, st) == \E i \in DOMAIN q : q[i].status = st
IdSeq(q) == [i \in DOMAIN q |-> q[i].id]

\* C1: single-active invariant: whatever merges and commands ran, at most
\* one item of the queue is PLAYING
C1_SingleActive == NumPlaying(queue) <= 1

\* a queue that went through merges, a stop and an explicit play: one item
\* of each status
C1_Witness ==
    /\ NumPlaying(queue) = 1
    /\ HasStatus(queue, QUEUED)
    /\ HasStatus(queue, COMPLETED)

\* C2: deduplication: within one session the poll makes at most one item of
\* each remote event id
C2_EnteredOnce == \A id \in RemoteIds : entered[id] <= 1

\* C3: id uniqueness: no two items of the queue have the same id
C3_IdsUnique ==
    \A i \in DOMAIN queue, j \in DOMAIN queue : i # j => queue[i].id # queue[j].id

\* C4: stale-session immunity: a poll response whose request was issued under
\* another context id than the current one changes neither the queue nor
\* lastEventRef nor lastStatsRef
C4_StaleIgnored ==
    [][\A events \in Batches, currentStats \in BOOLEAN :
          (pollResponse(events, currentStats) /\ pollSettings.matchId # settings.matchId)
              => UNCHANGED <<queue, lastEventRef, lastStatsRef>>]_vars

\* the events of a batch the duplicate check accepts, as queue items
Accepted(events) == Deduplicate(events, IdsOf(queue), lastEventRef, <<>>).newItems

\* C5: priority ordering with an active item: a poll merge while an item is
\* PLAYING at position k puts the accepted priority events, in arrival order,
\* directly after position k and the accepted normal events, in arrival
\* order, at the tail
C5_PriorityOrder ==
    [][\A events \in Batches :
          (pollResponse(events, FALSE) /\ HasStatus(queue, PLAYING))
              => LET k == FindIndexStatus(queue, PLAYING)
                 IN  queue' = SubSeq(queue, 1, k)
                                 \o SelectSeq(Accepted(events), IsPriority)
                                 \o SubSeq(queue, k + 1, Len(queue))
                                 \o SelectSeq(Accepted(events), IsNormal)]_vars

\* A playing, then the priority event and the normal event a poll accepted
\* last: the queue is A, P, N
C5_Witness ==
    /\ Len(queue) = 3
    /\ queue[1].status = PLAYING /\ queue[1].source = MANUAL
    /\ queue[2].status = QUEUED /\ IsPriority(queue[2]) /\ queue[2].source = AI
    /\ queue[3].status = QUEUED /\ IsNormal(queue[3]) /\ queue[3].source = AI
    /\ lastEventRef = queue[3].id
    /\ chatPc = "idle" /\ pollCountRef = 1

\* C6: skip semantics: skip with a PLAYING item and another item in the queue
\* removes the PLAYING item, makes the new head PLAYING and leaves auto-play
\* enabled, whatever auto-play was before
C6_Skip ==
    [][(handleSkip /\ HasStatus(queue, PLAYING) /\ Len(queue) >= 2)
          => /\ IdSeq(queue') = IdSeq(RemoveAt(queue, FindIndexStatus(queue, PLAYING)))
             /\ queue'[1].status = PLAYING
             /\ settings'.autoPlay]_vars

\* C7: stop semantics: stop with A PLAYING and B QUEUED leaves A COMPLETED,
\* B QUEUED, nothing PLAYING and auto-play disabled
C7_Stop ==
    [][\A a \in DOMAIN queue, b \in DOMAIN queue :
          (handleStop /\ queue[a].status = PLAYING /\ queue[b].status = QUEUED)
              => /\ Len(queue') = Len(queue)
                 /\ queue'[a].id = queue[a].id /\ queue'[a].status = COMPLETED
                 /\ queue'[b].id = queue[b].id /\ queue'[b].status = QUEUED
                 /\ NumPlaying(queue') = 0
                 /\ ~settings'.autoPlay]_vars

\* after a stop: a COMPLETED item, a QUEUED item behind it, nothing PLAYING
\* and auto-play off
C7_Witness ==
    /\ ~settings.autoPlay
    /\ NumPlaying(queue) = 0
    /\ Len(queue) = 2
    /\ queue[1].status = COMPLETED /\ queue[2].status = QUEUED
    /\ queue[1].id # queue[2].id

\* C8: stop freezes the queue: the ids and their order are the same before
\* and after, the stopped item stays at its place as COMPLETED and every
\* other item is unchanged
C8_StopFreezes ==
    [][handleStop
          => /\ IdSeq(queue') = IdSeq(queue)
             /\ \A i \in DOMAIN queue :
                   queue'[i] = IF queue[i].status = PLAYING
                               THEN [queue[i] EXCEPT !.status = COMPLETED]
                               ELSE queue[i]]_vars

\* after a stop with two items waiting: the stopped item is still at the
\* head and the waiting items are behind it
C8_Witness ==
    /\ ~settings.autoPlay
    /\ Len(queue) = 3
    /\ queue[1].status = COMPLETED /\ queue[2].status = QUEUED /\ queue[3].status = QUEUED
    /\ Cardinality(IdsOf(queue)) = 3

\* C9: explicit play of a QUEUED or COMPLETED item of the queue makes it
\* PLAYING, turns a PLAYING item into a QUEUED one without removing it,
\* leaves every other item in the queue with its status, and leaves
\* auto-play enabled
C9_ExplicitPlay ==
    [][\A id \in CommandIds :
          (/\ handleManualPlay(id)
           /\ id \in IdsOf(queue)
           /\ queue[FindIndexId(queue, id)].status # PLAYING)
              => LET found == FindIndexId(queue, id)
                     rest == RemoveAt(queue, found)
                 IN  /\ queue'[1] = [queue[found] EXCEPT !.status = PLAYING]
                     /\ Len(queue') = Len(queue)
                     /\ \A i \in DOMAIN rest :
                           queue'[i + 1] = IF rest[i].status = PLAYING
                                           THEN [rest[i] EXCEPT !.status = QUEUED]
                                           ELSE rest[i]
                     /\ settings'.autoPlay]_vars

\* C10: only explicit play turns a COMPLETED item into a PLAYING one
C10_DoneReentry ==
    [][(\E i \in DOMAIN queue, j \in DOMAIN queue' :
            /\ queue[i].id = queue'[j].id
            /\ queue[i].status = COMPLETED
            /\ queue'[j].status = PLAYING)
          => \E id \in CommandIds : handleManualPlay(id)]_vars

\* C11: a removal made while a tick is in flight is not undone by the merge
\* of that tick: an id the operator removed from the queue during the tick
\* and that the response carries is not in the queue after the merge
C11_RemovalSurvivesMerge ==
    [][\A events \in Batches :
          pollResponseRaced(events, FALSE)
              => \A id \in removedInFlight :
                    (\E i \in DOMAIN events : events[i].id = id) => id \notin IdsOf(queue')]_vars

\* C12: the poll loop never overlaps: a request is issued only by the tick
\* that was scheduled, and while a request is in flight no tick is scheduled
\* until one of its completion handlers runs, which schedules the next tick
C12_NoOverlap ==
    [][/\ (pollPc # "inflight" /\ pollPc' = "inflight") => (pollPc = "scheduled" /\ pollN8N)
       /\ (pollPc = "inflight" /\ pollPc' # "inflight") => (PollCompletes /\ pollPc' = "scheduled")
       /\ (pollPc = "off" /\ pollPc' # "off") => (handleStart /\ pollPc' = "scheduled")]_vars

\* the second tick is in flight: the first one finished and scheduled it
C12_Witness == pollPc = "inflight" /\ pollCountRef = 2

\* C13: the poll loop never stops while the session is started: the loop is
\* never off, every tick in flight ends, whatever its outcome, with the next
\* tick scheduled, and a scheduled tick of a configured session runs
C13_LoopContinues ==
    /\ [](isStarted => pollPc # "off")
    /\ (pollPc = "inflight") ~> (pollPc = "scheduled")
    /\ (pollPc = "scheduled" /\ pollCountRef < MaxPollCount /\ settings.matchId # NoMatch)
          ~> (pollPc = "inflight" \/ settings.matchId = NoMatch)

\* a tick failed and the next one is scheduled
C13_Witness ==
    /\ isStarted /\ pollPc = "scheduled" /\ pollCountRef = 1
    /\ ~n8nConnection /\ settings.matchId # NoMatch

\* C14: a failed poll (error or abort) leaves the queue, lastEventRef and
\* lastStatsRef as they were
C14_FailureKeepsState ==
    [][(pollError \/ pollAbort) => UNCHANGED <<queue, lastEventRef, lastStatsRef>>]_vars

\* a poll failed after an earlier one had filled the queue, the cursor and
\* the statistics snapshot
C14_Witness ==
    /\ isStarted /\ ~n8nConnection /\ pollPc = "scheduled" /\ pollCountRef = 2
    /\ queue # <<>> /\ lastEventRef # EmptyId /\ lastStatsRef # NoStats

\* C15: connectivity tracks the latest poll outcome: once a tick of the
\* running count has completed, a step that completes no poll (the loop is
\* waiting before and after it) does not change n8nConnection
C15_TracksLastPoll ==
    [][(pollPc = "scheduled" /\ pollPc' = "scheduled" /\ pollCountRef >= 1)
          => n8nConnection' = n8nConnection]_vars

\* C16: a poll that ends by the abort of its timeout leaves n8nConnection
\* false
C16_AbortIsFailure == [][pollAbort => ~n8nConnection']_vars

\* C17: remove, explicit play and explicit stop of an id that is not in the
\* queue leave the queue unchanged
C17_AbsentIdNoOp ==
    [][\A id \in CommandIds \ IdsOf(queue) :
          (handleRemoveItem(id) \/ handleManualPlay(id) \/ handleManualStopItem(id))
              => queue' = queue]_vars

\* every event of the batch is a normal one
AllNormal(events) == \A i \in DOMAIN events : IsNormal(events[i])

\* C18: no-active promotion: a merge of a batch of normal events, of which
\* at least one is accepted, while nothing is PLAYING and auto-play is
\* enabled appends the accepted events at the tail and makes the first
\* QUEUED item of the result PLAYING
C18_NoActivePromotion ==
    [][\A events \in Batches :
          (/\ pollResponse(events, FALSE)
           /\ AllNormal(events) /\ Accepted(events) # <<>>
           /\ ~HasStatus(queue, PLAYING)
           /\ settings.autoPlay)
              => LET appended == queue \o Accepted(events)
                 IN  queue' = SetStatus(appended, FindIndexStatus(appended, QUEUED), PLAYING)]_vars

\* C19: completion removes the PLAYING item; the new head becomes PLAYING
\* exactly when auto-play is enabled at that moment and the queue is not
\* empty; completion without a PLAYING item changes nothing
C19_Completion ==
    [][handleAudioEnded
          => LET k == FindIndexStatus(queue, PLAYING)
                 rest == RemoveAt(queue, k)
             IN  IF k = 0 THEN queue' = queue
                 ELSE IF settings.autoPlay /\ Len(rest) > 0
                 THEN queue' = SetStatus(rest, 1, PLAYING)
                 ELSE queue' = rest]_vars

\* C20: a stop issued while a tick is in flight is not undone by its merge:
\* when auto-play was enabled at the request and is disabled at the merge, a
\* batch of normal events makes no item PLAYING
C20_StopSurvivesMerge ==
    [][\A events \in Batches :
          (/\ pollResponseCounted(events, FALSE)
           /\ pollSettings.autoPlay /\ ~settings.autoPlay
           /\ AllNormal(events))
              => ~HasStatus(queue', PLAYING)]_vars

\* the priority events of a batch the duplicate check accepts
AcceptedPriority(events) == SelectSeq(Accepted(events), IsPriority)

\* C21: priority events play next: after a poll merge that accepted a
\* priority event while an item was PLAYING and auto-play is enabled, the
\* completion of the PLAYING item, with nothing in between, makes the first
\* accepted priority event PLAYING
C21_PriorityPlaysNext ==
    [][\A events \in Batches :
          (/\ pollResponse(events, FALSE)
           /\ HasStatus(queue, PLAYING)
           /\ AcceptedPriority(events) # <<>>
           /\ settings.autoPlay)
              => LET after == ItemFinishedUpdater(queue', settings'.autoPlay)
                 IN  \E i \in DOMAIN after :
                        /\ after[i].status = PLAYING
                        /\ after[i].id = Head(AcceptedPriority(events)).id]_vars

\* x was accepted before y
Before(order, x, y) ==
    \E i \in DOMAIN order, j \in DOMAIN order : i < j /\ order[i] = x /\ order[j] = y

\* the item at position i is the only one with its id and comes from a
\* normal remote event
NormalRemote(q, i) ==
    /\ q[i].source = AI /\ IsNormal(q[i])
    /\ Count(q, q[i].id) = 1

\* C22: routine commentary is FIFO: without reorder, explicit play, remove
\* and clear, a normal remote event is never PLAYING while a normal remote
\* event accepted before it is still QUEUED
C22_NormalFifo ==
    \A a \in DOMAIN queue, b \in DOMAIN queue :
        (/\ NormalRemote(queue, a) /\ NormalRemote(queue, b)
         /\ Before(acceptedOrder, queue[a].id, queue[b].id)
         /\ queue[a].status = QUEUED)
            => queue[b].status # PLAYING

\* the priority event has played and is gone; of the two normal events the
\* one accepted first is PLAYING and the later one waits
C22_Witness ==
    /\ Len(acceptedOrder) = 3 /\ Len(queue) = 2
    /\ \E a \in DOMAIN queue, b \in DOMAIN queue :
          /\ NormalRemote(queue, a) /\ NormalRemote(queue, b)
          /\ Before(acceptedOrder, queue[a].id, queue[b].id)
          /\ queue[a].status = PLAYING /\ queue[b].status = QUEUED

\* C23: merging never interrupts what is airing: a poll merge, a manual
\* upload or a chat response that finds an item PLAYING leaves that item
\* PLAYING and makes no other item PLAYING
C23_NoInterruption ==
    [][(/\ \/ \E events \in Batches : pollResponse(events, FALSE)
           \/ handleManualUpload
           \/ \E events \in ChatBatches : chatResponse(events)
        /\ HasStatus(queue, PLAYING))
          => /\ NumPlaying(queue') = 1
             /\ queue'[FindIndexStatus(queue', PLAYING)] = queue[FindIndexStatus(queue, PLAYING)]]_vars

\* an event of the poll is PLAYING and the chat item injected meanwhile
\* waits directly behind it
C23_Witness ==
    /\ Len(queue) >= 2
    /\ queue[1].status = PLAYING /\ queue[1].id \in RemoteIds /\ lastEventRef = queue[1].id
    /\ queue[2].status = QUEUED /\ queue[2].id = ChatId(1)

\* C24: remove of an id that one item of the queue has deletes that item;
\* when it was not PLAYING every other item keeps its place and status; when
\* it was PLAYING the new head becomes PLAYING if auto-play is enabled and
\* the queue is not empty
C24_Remove ==
    [][\A id \in IdsOf(queue) :
          (handleRemoveItem(id) /\ Count(queue, id) = 1)
              => LET found == FindIndexId(queue, id)
                     rest == RemoveAt(queue, found)
                 IN  IF queue[found].status = PLAYING /\ settings.autoPlay /\ Len(rest) > 0
                     THEN queue' = SetStatus(rest, 1, PLAYING)
                     ELSE queue' = rest]_vars

\* C25: priority merge with nothing PLAYING: the accepted priority events
\* stand at the head in arrival order, the first of them PLAYING whatever
\* auto-play is, and the accepted normal events are the tail in arrival order
C25_PriorityNothingActive ==
    [][\A events \in Batches :
          (/\ pollResponse(events, FALSE)
           /\ ~HasStatus(queue, PLAYING)
           /\ AcceptedPriority(events) # <<>>)
              => LET prio == AcceptedPriority(events)
                     norm == SelectSeq(Accepted(events), IsNormal)
                 IN  /\ SubSeq(queue', 1, Len(prio)) = SetStatus(prio, 1, PLAYING)
                     /\ SubSeq(queue', Len(queue') - Len(norm) + 1, Len(queue')) = norm
                     /\ Len(queue') = Len(queue) + Len(prio) + Len(norm)
                     /\ NumPlaying(queue') = 1]_vars

\* a priority event went to the head as PLAYING, ahead of the normal event
\* that was waiting, with auto-play disabled
C25_Witness ==
    /\ ~settings.autoPlay
    /\ Len(queue) = 2
    /\ queue[1].status = PLAYING /\ IsPriority(queue[1]) /\ lastEventRef = queue[1].id
    /\ queue[2].status = QUEUED /\ IsNormal(queue[2]) /\ queue[2].source = AI

\* C26: priority events force auto-play on: after a poll merge that accepted
\* a priority event auto-play is enabled
C26_PriorityForcesAutoPlay ==
    [][\A events \in Batches :
          (pollResponse(events, FALSE) /\ AcceptedPriority(events) # <<>>)
              => settings'.autoPlay]_vars

\* C27: manual inject makes one new MANUAL item, enables auto-play, and puts
\* the item directly behind the PLAYING item and ahead of the waiting items
\* in their order, or at the head as PLAYING when nothing is PLAYING
C27_ManualInject ==
    [][handleManualUpload
          => LET k == FindIndexStatus(queue, PLAYING)
                 waiting == SelectSeq(queue, NotPlaying)
             IN  /\ settings'.autoPlay
                 /\ Len(queue') = Len(queue) + 1
                 /\ IF k # 0
                    THEN /\ queue'[1] = queue[k]
                         /\ queue'[2].source = MANUAL /\ queue'[2].status = QUEUED
                         /\ queue'[2].id \notin IdsOf(queue)
                         /\ SubSeq(queue', 3, Len(queue')) = waiting
                    ELSE /\ queue'[1].source = MANUAL /\ queue'[1].status = PLAYING
                         /\ queue'[1].id \notin IdsOf(queue)
                         /\ SubSeq(queue', 2, Len(queue')) = queue]_vars

\* an upload while an event was PLAYING and another one waiting: the manual
\* item stands between them
C27_Witness ==
    /\ settings.autoPlay
    /\ Len(queue) = 3
    /\ queue[1].status = PLAYING /\ queue[1].source = AI
    /\ queue[2].status = QUEUED /\ queue[2].source = MANUAL
    /\ queue[3].status = QUEUED /\ queue[3].source = AI
    /\ Cardinality(IdsOf(queue)) = 3

\* C28: chat inject puts the returned events, in arrival order, directly
\* behind the PLAYING item or at the head with the first one PLAYING, keeps
\* the waiting items in their order behind them, and leaves auto-play
\* enabled (for a response that arrives in the context of its request)
C28_ChatInject ==
    [][\A events \in ChatBatches :
          (chatResponse(events) /\ events # <<>> /\ chatSettings.matchId = settings.matchId)
              => LET k == FindIndexStatus(queue, PLAYING)
                     waiting == SelectSeq(queue, NotPlaying)
                     n == Len(events)
                     newItems == [i \in DOMAIN events |-> ChatItem(events[i], now')]
                 IN  /\ settings'.autoPlay
                     /\ IF k # 0
                        THEN queue' = <<queue[k]>> \o newItems \o waiting
                        ELSE queue' = SetStatus(newItems, 1, PLAYING) \o waiting]_vars

\* C29: a chat response whose request was issued under a match other than
\* the current context (the match was switched or reset meanwhile) does not
\* change the queue
C29_StaleChatIgnored ==
    [][\A events \in ChatBatches :
          (/\ chatResponse(events)
           /\ chatSettings.matchId \in MatchIds
           /\ chatSettings.matchId # settings.matchId)
              => queue' = queue]_vars

\* C30: explicit stop of the PLAYING item leaves it COMPLETED at its place,
\* makes nothing PLAYING and keeps auto-play; explicit stop of an item that
\* is not PLAYING leaves the queue unchanged
C30_ExplicitStop ==
    [][\A id \in IdsOf(queue) :
          handleManualStopItem(id)
              => LET found == FindIndexId(queue, id)
                 IN  /\ settings' = settings
                     /\ IF queue[found].status = PLAYING
                        THEN /\ IdSeq(queue') = IdSeq(queue)
                             /\ queue'[found] = [queue[found] EXCEPT !.status = COMPLETED]
                             /\ NumPlaying(queue') = 0
                        ELSE queue' = queue]_vars

\* after an explicit stop: the stopped item is COMPLETED at the head, the
\* next one still waits and auto-play is still enabled
C30_Witness ==
    /\ settings.autoPlay
    /\ Len(queue) = 2
    /\ queue[1].status = COMPLETED /\ queue[2].status = QUEUED
    /\ queue[1].id # queue[2].id
    /\ pollCountRef = 1 /\ pollPc = "scheduled" /\ chatPc = "idle" /\ now = 0

C32_MalformedDropped ==
    [][\A events \in PollBatches :
          (/\ pollResponse(events, FALSE)
           /\ \E i \in DOMAIN events : events[i].id = Undefined)
              => /\ Undefined \notin IdsOf(queue) => Undefined \notin IdsOf(queue')
                 /\ lastEventRef # Undefined => lastEventRef' # Undefined]_vars

\* C33: context reset clears the session: a settings save or a match
\* selection that changes the match id, and reset-match, leave the queue
\* empty, lastEventRef empty and lastStatsRef empty
C33_ContextReset ==
    [][(\/ \E newSettings \in FormsOf(MatchIds) :
               saveSettings(newSettings) /\ newSettings.matchId # settings.matchId
        \/ \E m \in MatchIds : handleSelectMatch(m) /\ m # settings.matchId
        \/ handleResetMatch)
          => /\ queue' = <<>>
             /\ lastEventRef' = EmptyId
             /\ lastStatsRef' = NoStats]_vars

\* the operator has switched from X to Y while a tick issued under X was in
\* flight, after an earlier poll: the session is empty
C33_Witness ==
    /\ pollPc = "inflight"
    /\ pollSettings.matchId = "X" /\ settings.matchId = "Y"
    /\ pollCountRef = 2
    /\ queue = <<>> /\ lastEventRef = EmptyId /\ lastStatsRef = NoStats

\* the tick of the loop finds an endpoint and a context id
Configured == settings.n8nUrl /\ settings.matchId # NoMatch

\* C34: configuration absence degrades to a no-op tick: while the timer is
\* set and the endpoint or the context id is missing, the tick can run and
\* can change nothing (no request, no increment of pollCountRef, queue,
\* cursor, snapshot and connectivity signal as they were, the timer set
\* again); a tick that finds the configuration issues a request and
\* increments pollCountRef by one
C34_ConfigAbsence ==
    /\ []((pollPc = "scheduled" /\ ~Configured)
            => (ENABLED pollN8N) /\ ~(ENABLED <<pollN8N>>_vars))
    /\ [][(pollN8N /\ Configured)
            => /\ pollPc' = "inflight"
               /\ pollCountRef' = pollCountRef + 1
               /\ UNCHANGED <<queue, lastEventRef, lastStatsRef, n8nConnection>>]_vars

\* the session runs, the timer is set and a poll was made, but the endpoint
\* is no longer configured
C34_Witness ==
    /\ isStarted /\ pollPc = "scheduled"
    /\ ~settings.n8nUrl /\ settings.matchId = "X"
    /\ pollCountRef = 1
    /\ queue # <<>>

\* a tick that issues a request
IssuesRequest == pollPc = "scheduled" /\ pollPc' = "inflight"

\* C35: pollCountRef increases by exactly one for each tick that issues a
\* request, and for a request with pollCountRef n >= 2 the skipApi field sent
\* is false exactly when n mod 5 = 0
C35_Cadence ==
    [][IssuesRequest
          => /\ pollCountRef' = pollCountRef + 1
             /\ pollCountRef' >= 2 => (skipApi' = FALSE <=> pollCountRef' % 5 = 0)]_vars

\* the fifth request of a session is in flight as a full poll
C35_Witness ==
    /\ pollPc = "inflight" /\ pollCountRef = 5 /\ skipApi = FALSE

\* C36 as stated: the request with pollCountRef = 1 carries skipApi = true
C36_FirstTickCheap ==
    [][(IssuesRequest /\ pollCountRef' = 1) => skipApi' = TRUE]_vars

\* C36 as amended: the request with pollCountRef = 1 carries skipApi = false:
\* the first poll is a full poll
C36_FirstTickFull ==
    [][(IssuesRequest /\ pollCountRef' = 1) => skipApi' = FALSE]_vars

\* the first request after the operator selected the match again is in
\* flight as a full poll, after a cheap one
C36_Witness ==
    /\ pollPc = "inflight" /\ pollCountRef = 1 /\ skipApi = FALSE
    /\ queue # <<>>

\* C37: clear removes every item that is not PLAYING, QUEUED and COMPLETED
\* alike, and keeps the PLAYING item unchanged: afterwards the queue holds
\* the PLAYING item alone, or is empty when nothing was PLAYING
C37_Clear ==
    [][handleClear
          => LET playingIndex == FindIndexStatus(queue, PLAYING)
             IN  /\ queue' = IF playingIndex # 0 THEN <<queue[playingIndex]>> ELSE <<>>
                 /\ UNCHANGED <<settings, lastEventRef>>]_vars

\* one poll brought two events; the first is still PLAYING and is alone in
\* the queue
C37_Witness ==
    /\ Len(queue) = 1
    /\ queue[1].status = PLAYING /\ queue[1].id = EventId(1)
    /\ lastEventRef = EventId(2)
    /\ pollCountRef = 1 /\ pollPc = "scheduled" /\ chatPc = "idle" /\ now = 0

\* C39: forcing auto-play on changes only the auto-play flag: a chat
\* response that turns auto-play on leaves every other settings field with
\* the value it has at that moment
C39_ForcingKeepsSettings ==
    [][\A events \in ChatBatches :
          (chatResponse(events) /\ settings'.autoPlay /\ ~chatSettings.autoPlay)
              => /\ settings'.matchId = settings.matchId
                 /\ settings'.n8nUrl = settings.n8nUrl]_vars

\* the item with this id is PLAYING
Active(id) == \E i \in DOMAIN queue : queue[i].id = id /\ queue[i].status = PLAYING

\* the PLAYING item with this id is rendered: its media plays, or its text
\* is shown
Rendered(id) ==
    \E i \in DOMAIN queue :
        /\ queue[i].id = id /\ queue[i].status = PLAYING
        /\ IF queue[i].source = MANUAL THEN audio.src = id /\ ~audio.paused
           ELSE PopupVisible(queue)

\* C38: the queue keeps draining: with auto-play enabled and no stop, clear
\* or remove, if media that plays ends and a text that is shown is closed,
\* every item that becomes PLAYING is eventually rendered and eventually
\* leaves the PLAYING state, and every item in the queue eventually becomes
\* PLAYING
C38_QueueDrains ==
    \A id \in PlaybackIds :
        /\ Active(id) ~> Rendered(id)
        /\ Active(id) ~> ~Active(id)
        /\ (id \in IdsOf(queue)) ~> Active(id)

\* C40: a completion signal applies to the item it was raised for: when the
\* acknowledgement of the text of item X has pruned X and made a text item
\* Y PLAYING, the same acknowledgement delivered a second time, with nothing
\* in between, does not prune Y
C40_SignalForItem ==
    [][(onClose /\ PopupVisible(queue'))
          => LET Y == queue'[FindIndexStatus(queue', PLAYING)]
                 again == ItemFinishedUpdater(queue', settings'.autoPlay)
             IN  \E i \in DOMAIN again : again[i] = Y]_vars

====
